---- MODULE Spec2Model ----
(***************************************************************************)
(* The portfolio simulation engine of MA_Arbitrage_Project:                *)
(*   backtester.py        backtest(), ledger keyed by deal_id              *)
(*   backtester_stock.py  backtest(), ledger keyed by (deal_id, price_type)*)
(*   strategy.py          backtest(), ledger keyed by deal_id, run only    *)
(*                        where duplicate price rows are studied           *)
(*   strategy.py, strategy_imp_prob.py  the trading-day helpers            *)
(*   strategy.py, strategy_imp_prob.py, strategy_Shuhan.py  the order      *)
(*                        generators, run in front of a backtest()         *)
(*   strategy_Shuhan.py   load_prices                                      *)
(* A run replays the caller's orders against the caller's price rows, one  *)
(* order at a time and one calendar date at a time.                        *)
(*                                                                         *)
(* Money is modelled in integer units (the source computes in floats);     *)
(* the price universe is chosen so that every mean the composite engine    *)
(* takes over duplicate rows is an integer.                                *)
(***************************************************************************)
EXTENDS Integers, Sequences, FiniteSets

VARIABLES
    engine,             \* which backtest() is run
    price_df,           \* the caller's price rows (argument price_df)
    orders,             \* the caller's order rows (argument orders_df)
    sort_perm,          \* the row permutation sort_values(by='date') yields on `orders`
    alt_perm,           \* the same for the caller's reordered copy of `orders`
    capital,            \* the caller's initial_capital argument
    pc,                 \* per run: position in backtest()
    orders_df,          \* per run: the orders after sort_values
    all_dates,          \* per run: the trading calendar
    price_lookup,       \* per run: the price oracle
    positions,          \* per run: the ledger
    cash,               \* per run: the cash scalar
    portfolio_history,  \* per run: the valuation trace so far
    date_idx,           \* per run: index of current_date in all_dates
    order_idx,          \* per run: index of the next row of daily_orders
    error,              \* per run: the exception raised, <<>> when none
    ledger_log,         \* per run: cash and positions as each record was appended
    fill_log,           \* per run: the order rows filled so far, by row label and date
    first_outcome,      \* per run: how the earlier call ended, <<>> before a replay
    day_call,           \* a call of a trading-day helper: arguments and return value
    deals_df,           \* the deals handed to the order generator
    generator,          \* the order generator called: its module and how the call ended
    prices_csv          \* the price rows read from the file handed to load_prices

vars == <<engine, price_df, orders, sort_perm, alt_perm, capital, pc, orders_df,
          all_dates, price_lookup, positions, cash, portfolio_history, date_idx,
          order_idx, error, ledger_log, fill_log, first_outcome, day_call,
          deals_df, generator, prices_csv>>

inputs == <<engine, price_df, orders, sort_perm, alt_perm, capital, prices_csv>>

backtest_vars == <<inputs, pc, orders_df, all_dates, price_lookup, positions, cash,
                   portfolio_history, date_idx, order_idx, error, ledger_log,
                   fill_log, first_outcome>>

(***************************************************************************)
(* Bounds of the enumerated inputs.                                        *)
(***************************************************************************)
MaxDate == 2
MaxPriceRows == 3
MaxOrders == 2
MaxCalendarDate == 4
MaxDeals == 1

Runs == {1, 2}
Engines == {"backtester", "backtester_stock"}
KeyedByDeal == {"backtester", "strategy"}
Prices == {10, 20}
ShareCounts == {-1, 1}

\* The instruments of the enumerated inputs, as (deal_id, price_type).  The
\* single-key engine reads no price_type column: its rows all carry "target".
Instruments(e) ==
    IF e \in KeyedByDeal
    THEN {<<0, "target">>, <<1, "target">>}
    ELSE {<<0, "target">>, <<0, "acquirer">>}

PriceRowUniverse(e, dates) ==
    {[date |-> d, deal_id |-> i[1], price_type |-> i[2], price |-> p] :
        d \in dates, i \in Instruments(e), p \in Prices}

OrderRowUniverse(e, dates) ==
    {[date |-> d, deal_id |-> i[1], price_type |-> i[2], shares |-> s] :
        d \in dates, i \in Instruments(e), s \in ShareCounts}

(***************************************************************************)
(* Helpers on sets and sequences.                                          *)
(***************************************************************************)
Range(s) == {s[i] : i \in 1..Len(s)}

RECURSIVE SetToSeq(_)
SetToSeq(S) ==
    IF S = {} THEN <<>>
    ELSE LET x == CHOOSE y \in S : TRUE IN <<x>> \o SetToSeq(S \ {x})

RECURSIVE SortedSeq(_)
\* sorted(set of dates): ascending, each once
SortedSeq(S) ==
    IF S = {} THEN <<>>
    ELSE LET m == CHOOSE y \in S : \A z \in S : y <= z
         IN <<m>> \o SortedSeq(S \ {m})

RECURSIVE SumSeq(_)
SumSeq(s) == IF s = <<>> THEN 0 ELSE Head(s) + SumSeq(Tail(s))

RowPermutations(n) ==
    {p \in [1..n -> 1..n] : \A i, j \in 1..n : i # j => p[i] # p[j]}

(***************************************************************************)
(* The trading-day helpers of strategy.py and strategy_imp_prob.py.  A     *)
(* returned date d is <<d>>, a returned None is <<>>.                      *)
(***************************************************************************)
None == <<>>

RECURSIVE get_next_trading_day_inclusive(_, _)
\* a scan that takes the first trading day on or after `date`
get_next_trading_day_inclusive(date, trading_dates) ==
    IF trading_dates = <<>> THEN None
    ELSE IF Head(trading_dates) >= date THEN <<Head(trading_dates)>>
    ELSE get_next_trading_day_inclusive(date, Tail(trading_dates))

RECURSIVE get_next_trading_day(_, _)
\* for d in trading_dates: if d > date: return d; return None
get_next_trading_day(date, trading_dates) ==
    IF trading_dates = <<>> THEN None
    ELSE IF Head(trading_dates) > date THEN <<Head(trading_dates)>>
    ELSE get_next_trading_day(date, Tail(trading_dates))

RECURSIVE ScanPrevious(_, _, _)
\* the loop of get_previous_trading_day with `prev` so far, over the rest of
\* trading_dates: prev = d while d < date, break at the first other d
ScanPrevious(prev, date, rest) ==
    IF rest = <<>> THEN prev
    ELSE IF Head(rest) < date THEN ScanPrevious(<<Head(rest)>>, date, Tail(rest))
    ELSE prev

RECURSIVE ScanPreviousInclusive(_, _, _)
\* the same loop keeping every d <= date
ScanPreviousInclusive(prev, date, rest) ==
    IF rest = <<>> THEN prev
    ELSE IF Head(rest) <= date
         THEN ScanPreviousInclusive(<<Head(rest)>>, date, Tail(rest))
    ELSE prev

\* a scan that takes the last trading day on or before `date`
get_previous_trading_day_inclusive(date, trading_dates) ==
    ScanPreviousInclusive(None, date, trading_dates)

\* prev = None; the loop; return prev
get_previous_trading_day(date, trading_dates) ==
    ScanPrevious(None, date, trading_dates)

\* sorted(price_df['date'].unique()) over every set of dates up to the bound
SortedCalendars == {SortedSeq(D) : D \in SUBSET (1..MaxCalendarDate)}

\* the dates asked about: each calendar date, one before and one after
QueryDates == 0..(MaxCalendarDate + 1)

NoCall == [date |-> 0, trading_dates |-> <<>>, fn |-> "none", returned |-> None]

(***************************************************************************)
(* backtest(): preparation before the daily loop.                          *)
(***************************************************************************)
initial_capital == 1000000

\* a composite ledger key that drops the deal_id
LedgerKeyLegOnly(e, row) ==
    IF e \in KeyedByDeal THEN row.deal_id ELSE <<0, row.price_type>>

\* a ledger key that books every leg of a deal under "target"
LedgerKeyOneLeg(e, row) ==
    IF e \in KeyedByDeal THEN row.deal_id ELSE <<row.deal_id, "target">>

\* The ledger key of a row.
LedgerKey(e, row) ==
    IF e \in KeyedByDeal THEN row.deal_id ELSE <<row.deal_id, row.price_type>>

\* The index tuple of price_lookup for a date and a ledger key.
LookupKey(e, d, k) ==
    IF e \in KeyedByDeal THEN <<d, k>> ELSE <<d, k[1], k[2]>>

\* The index tuple of a price row.
RowIndex(e, row) == LookupKey(e, row.date, LedgerKey(e, row))

\* The prices of the rows of df that carry index tuple ix, in row order.
RowsAt(e, df, ix) ==
    LET hit == SelectSeq(df, LAMBDA row : RowIndex(e, row) = ix)
    IN [i \in 1..Len(hit) |-> hit[i].price]

\* a resolution of duplicates that keeps the first row of the group
MeanKeepFirst(ps) == Head(ps)

\* groupby(...).agg({'price': 'mean'}) over one group of prices.
Mean(ps) == SumSeq(ps) \div Len(ps)

\* price_lookup: index tuple -> the prices stored under it.  The single-key
\* engine indexes the rows as they are; the composite engine first replaces
\* the rows of one (date, deal_id, price_type) by their mean.
BuildPriceLookup(e, df) ==
    LET idx == {RowIndex(e, df[i]) : i \in 1..Len(df)}
    IN [ix \in idx |->
          IF e \in KeyedByDeal THEN RowsAt(e, df, ix)
          ELSE <<Mean(RowsAt(e, df, ix))>>]

\* key in price_lookup
InLookup(pl, ix) == ix \in DOMAIN pl

\* The index of price_lookup holds no tuple twice.
IndexIsUnique(pl) == \A ix \in DOMAIN pl : Len(pl[ix]) = 1

\* What price_lookup.loc[key] is: the scalar stored under a key of a unique
\* index, and else the Series of the rows stored under the key, whether they
\* are several or one.
LocIsSeries(pl, ix) == ~IndexIsUnique(pl)

\* The conversion of price_lookup.loc[key] to the price of a fill succeeds:
\* float() of a scalar; float() of a Series of one row, which pandas converts
\* up to 2.x; .iloc[0] of a Series
Convertible(e, pl, ix) ==
    IF e = "strategy" THEN LocIsSeries(pl, ix)
    ELSE Len(pl[ix]) = 1

\* The conversion raises: float() of a Series of several rows, and from
\* pandas 3 on of a Series of one row; .iloc[0] of a scalar
ConversionRaises(e, pl, ix) ==
    IF e = "strategy" THEN ~LocIsSeries(pl, ix)
    ELSE LocIsSeries(pl, ix)

\* the exception of a failed conversion
ConversionError(e, d, row) ==
    IF e = "strategy"
    THEN <<"AttributeError", "iloc", d, row.deal_id>>
    ELSE <<"TypeError", "cannot convert the series to float", d, row.deal_id>>

\* The price of a fill: float(price_lookup.loc[key]) in backtester.py and
\* backtester_stock.py, float(price_lookup.loc[key].iloc[0]) in strategy.py.
Loc(pl, ix) == pl[ix][1]

\* the date column as the rows give it, neither deduplicated nor sorted
TradingCalendarRaw(df) == [i \in 1..Len(df) |-> df[i].date]

\* the date column sorted but not deduplicated
TradingCalendarSortedOnly(df) ==
    [n \in 1..Len(df) |->
        CHOOSE d \in {df[i].date : i \in 1..Len(df)} :
            /\ Cardinality({i \in 1..Len(df) : df[i].date < d}) < n
            /\ n <= Cardinality({i \in 1..Len(df) : df[i].date <= d})]

\* sorted(price_df['date'].unique())
TradingCalendar(df) == SortedSeq({df[i].date : i \in 1..Len(df)})

\* sort_values(by='date') under the permutation it yields on these rows; each
\* row keeps its index label, its place in the caller's frame.
SortValues(rows, perm) ==
    [i \in 1..Len(rows) |->
        [f \in {"index"} \cup DOMAIN rows[perm[i]] |->
            IF f = "index" THEN perm[i] ELSE rows[perm[i]][f]]]

\* The permutations sort_values may yield: any that orders the rows by date
\* (the default sort kind is not stable).
SortOutcomes(rows) ==
    {p \in RowPermutations(Len(rows)) :
        \A i, j \in 1..Len(rows) : i < j => rows[p[i]].date <= rows[p[j]].date}

\* the rows dated d or earlier
DailyOrdersUpTo(odf, d) == SelectSeq(odf, LAMBDA row : row.date <= d)

\* orders_by_date.get_group(d), empty when d is not in orders_by_date.groups
DailyOrders(odf, d) == SelectSeq(odf, LAMBDA row : row.date = d)

(***************************************************************************)
(* backtest(): the ledger.                                                 *)
(***************************************************************************)
EmptyLedger == [k \in {} |-> 0]

\* positions.get(k, 0)
Get(pos, k) == IF k \in DOMAIN pos THEN pos[k] ELSE 0

\* order_cost at a price one unit away from the oracle's
OrderCostWithSlippage(price, shares) == (price + 1) * shares

\* order_cost with the sign of the share count dropped
OrderCostUnsigned(price, shares) == price * (IF shares < 0 THEN -shares ELSE shares)

\* order_cost = current_price * shares
OrderCost(price, shares) == price * shares

\* a ledger update that drops an entry whose quantity comes back to zero
ApplyToPositionsPurgeZero(pos, k, shares) ==
    [kk \in {x \in (DOMAIN pos) \cup {k} : x # k \/ Get(pos, k) + shares # 0} |->
        IF kk = k THEN Get(pos, k) + shares ELSE pos[kk]]

\* a ledger update that stores the order's shares over the old quantity
ApplyToPositionsOverwrite(pos, k, shares) ==
    [kk \in (DOMAIN pos) \cup {k} |-> IF kk = k THEN shares ELSE pos[kk]]

\* positions[k] = positions.get(k, 0) + shares
ApplyToPositions(pos, k, shares) ==
    [kk \in (DOMAIN pos) \cup {k} |->
        IF kk = k THEN Get(pos, k) + shares ELSE pos[kk]]

\* a cash update with the sign of the cost turned round
ApplyToCashAdds(c, cost) == c + cost

\* a cash update that takes the cost of buys and leaves out the proceeds of sells
ApplyToCashBuysOnly(c, cost) == IF cost < 0 THEN c ELSE c - cost

\* a cash update that also charges one unit per order
ApplyToCashWithFee(c, cost) == c - cost - 1

\* cash -= order_cost
ApplyToCash(c, cost) == c - cost

RECURSIVE InvestedOverAtPar(_, _, _, _, _)
\* a valuation loop that counts an unpriced key at one unit per share
InvestedOverAtPar(e, pl, pos, d, ks) ==
    IF ks = {} THEN 0
    ELSE LET k == CHOOSE x \in ks : TRUE
             rest == InvestedOverAtPar(e, pl, pos, d, ks \ {k})
         IN IF InLookup(pl, LookupKey(e, d, k))
            THEN pos[k] * Loc(pl, LookupKey(e, d, k)) + rest
            ELSE pos[k] + rest

RECURSIVE InvestedOver(_, _, _, _, _)
\* the loop over positions.items(): adds shares_owned * price for every key
\* of ks that is priced on date d
InvestedOver(e, pl, pos, d, ks) ==
    IF ks = {} THEN 0
    ELSE LET k == CHOOSE x \in ks : TRUE
             rest == InvestedOver(e, pl, pos, d, ks \ {k})
         IN IF InLookup(pl, LookupKey(e, d, k))
            THEN pos[k] * Loc(pl, LookupKey(e, d, k)) + rest
            ELSE rest

InvestedCapital(e, pl, pos, d) == InvestedOver(e, pl, pos, d, DOMAIN pos)

\* str(k) of a composite key, as the composite engine names a holding
StrKey(k) == <<"str", k[1], k[2]>>

\* the test a ledger entry passes to be reported in 'holdings'
Reported(e, v) == IF e = "backtester" THEN v > 0 ELSE v # 0

\* the 'holdings' dictionary of a valuation record
Holdings(e, pos) ==
    LET kept == {k \in DOMAIN pos : Reported(e, pos[k])}
    IN IF e = "backtester"
       THEN [k \in kept |-> pos[k]]
       ELSE [s \in {StrKey(k) : k \in kept} |->
               pos[CHOOSE k \in kept : StrKey(k) = s]]

\* a record whose value leaves the cash out
ValuationRecordNoCash(e, pl, pos, c, d) ==
    [date |-> d,
     value |-> InvestedCapital(e, pl, pos, d),
     invested_capital |-> InvestedCapital(e, pl, pos, d),
     holdings |-> Holdings(e, pos)]

\* The sum of the valuation loop when price_lookup[key] is a Series: scalar
\* `start` plus, for each priced key of the ledger, shares_owned times the
\* Series of the key's rows.  The Series arithmetic is left unevaluated.
SeriesSum(e, pl, pos, start, d) ==
    <<"Series", start,
      {<<k, pos[k], pl[LookupKey(e, d, k)]>> :
          k \in {kk \in DOMAIN pos : InLookup(pl, LookupKey(e, d, kk))}}>>

\* some key of the ledger is priced on date d
AnyPriced(e, pl, pos, d) == \E k \in DOMAIN pos : InLookup(pl, LookupKey(e, d, k))

ValuationRecord(e, pl, pos, c, d) ==
    IF e = "strategy"
    THEN [date |-> d,
          value |-> IF IndexIsUnique(pl) \/ ~AnyPriced(e, pl, pos, d)
                    THEN c + InvestedCapital(e, pl, pos, d)
                    ELSE SeriesSum(e, pl, pos, c, d)]
    ELSE IF IndexIsUnique(pl) \/ ~AnyPriced(e, pl, pos, d)
    THEN [date |-> d,
          value |-> c + InvestedCapital(e, pl, pos, d),
          invested_capital |-> InvestedCapital(e, pl, pos, d),
          holdings |-> Holdings(e, pos)]
    ELSE [date |-> d,
          value |-> SeriesSum(e, pl, pos, c, d),
          invested_capital |-> SeriesSum(e, pl, pos, 0, d),
          holdings |-> Holdings(e, pos)]

\* the ValueError raised for an order that has no price
PriceNotFound(e, d, row) ==
    IF e \in KeyedByDeal
    THEN <<"ValueError", "Price not found", d, row.deal_id>>
    ELSE <<"ValueError", "Price not found", d, row.deal_id, row.price_type>>

\* The row gives its deal_id: the cell is not NaN.
HasDealId(row) == "deal_id" \in DOMAIN row

\* the ValueError raised on an order whose deal_id cell is NaN: by
\* int(row['deal_id']) in backtester.py, and in backtester_stock.py by the
\* lookup of a key that no index tuple equals
MissingDealId(e, d, row) ==
    IF e \in KeyedByDeal
    THEN <<"ValueError", "cannot convert float NaN to integer", d>>
    ELSE <<"ValueError", "Price not found", d, "nan", row.price_type>>

\* the KeyError of set_index('date') on a frame built from no records
NoDateColumn == <<"KeyError", "date">>

(***************************************************************************)
(* The order generators: strategy.py generate_orders_from_deals,           *)
(* strategy_imp_prob.py generate_orders, strategy_Shuhan.py                *)
(* generate_orders.  Dates are whole days, so strftime("%Y-%m-%d") and     *)
(* the pd.to_datetime that reads it back return the day they were given.   *)
(***************************************************************************)
shares_on_announce == 100
shares_on_amendment == 50
capital_each_side == 10000

\* a date cell that holds no date; a date d is <<d>>
NaT == <<>>

Generators == {"strategy", "strategy_imp_prob", "strategy_Shuhan"}

\* The backtest() that replays a generator's orders.
EngineOf(module) ==
    IF module = "strategy_Shuhan" THEN "backtester_stock" ELSE "backtester"

\* One dict appended to `orders`.
OrderRow(d, id, leg, n) ==
    [date |-> d, deal_id |-> id, price_type |-> leg, shares |-> n]

\* strategy.py: the orders of one deal, the announce-day buy and then the
\* sell before completion.
DealOrders(deal, all_trading_dates) ==
    IF deal.deal_type # "M&A" THEN <<>>
    ELSE LET buy_date == IF deal.announce = NaT THEN None
                         ELSE get_next_trading_day(deal.announce[1], all_trading_dates)
             sell_date == IF deal.completion = NaT THEN None
                          ELSE get_previous_trading_day(deal.completion[1],
                                                        all_trading_dates)
             total_shares_bought ==
                 shares_on_announce
                     + (IF deal.amendment # NaT THEN shares_on_amendment ELSE 0)
         IN (IF buy_date # None
             THEN <<OrderRow(buy_date[1], deal.deal_id, "target", shares_on_announce)>>
             ELSE <<>>)
            \o
            (IF sell_date # None
             THEN <<OrderRow(sell_date[1], deal.deal_id, "target", -total_shares_bought)>>
             ELSE <<>>)

\* strategy_imp_prob.py: int(shares_on_announce * p), p held in percent
adjusted_shares(deal) == (shares_on_announce * deal.implied_prob) \div 100

\* strategy_imp_prob.py: the inner get_previous_trading_day returns None and
\* the outer one compares a trading date with it: TypeError.
PreviousOfNoneRaises(deal, trading_dates) ==
    /\ deal.deal_type = "M&A"
    /\ adjusted_shares(deal) # 0
    /\ deal.completion # NaT
    /\ trading_dates # <<>>
    /\ get_previous_trading_day(deal.completion[1], trading_dates) = None

\* strategy_imp_prob.py: the orders of one deal whose loop body does not raise.
ImpliedProbDealOrders(deal, trading_dates) ==
    IF deal.deal_type # "M&A" \/ adjusted_shares(deal) = 0 THEN <<>>
    ELSE LET buy_date == IF deal.announce = NaT THEN None
                         ELSE get_next_trading_day(deal.announce[1], trading_dates)
             inner == IF deal.completion = NaT THEN None
                      ELSE get_previous_trading_day(deal.completion[1], trading_dates)
             sell_date == IF inner = None THEN None
                          ELSE get_previous_trading_day(inner[1], trading_dates)
         IN (IF buy_date # None
             THEN <<OrderRow(buy_date[1], deal.deal_id, "target", adjusted_shares(deal))>>
             ELSE <<>>)
            \o
            (IF sell_date # None
             THEN <<OrderRow(sell_date[1], deal.deal_id, "target", -adjusted_shares(deal))>>
             ELSE <<>>)

\* grouped_prices.get_group((deal_id, leg)): the dates of the group
LegDates(df, id, leg) ==
    {df[i].date : i \in {j \in 1..Len(df) : df[j].deal_id = id /\ df[j].price_type = leg}}

\* leg_prices[leg_prices['date'] == d]['price'].iloc[0]
LegPriceOn(df, id, leg, d) ==
    LET hits == {j \in 1..Len(df) :
                    df[j].deal_id = id /\ df[j].price_type = leg /\ df[j].date = d}
    IN df[CHOOSE j \in hits : \A h \in hits : j <= h].price

MinOf(S) == CHOOSE x \in S : \A y \in S : x <= y
MaxOf(S) == CHOOSE x \in S : \A y \in S : x >= y

\* min(target_exit_date, acquirer_exit_date)
ExitDate(target_exit_dates, acquirer_exit_dates) ==
    IF MaxOf(target_exit_dates) <= MaxOf(acquirer_exit_dates)
    THEN MaxOf(target_exit_dates) ELSE MaxOf(acquirer_exit_dates)

\* strategy_Shuhan.py: the four orders of one deal, or none when the deal is
\* skipped.  A comparison with NaT is False, so a dateless deal selects no row.
LongShortDealOrders(deal, df) ==
    LET id == deal.deal_id
        target_dates == LegDates(df, id, "target")
        acquirer_dates == LegDates(df, id, "acquirer")
        target_entry == IF deal.announce = NaT THEN {}
                        ELSE {d \in target_dates : d >= deal.announce[1]}
        acquirer_entry == IF deal.announce = NaT THEN {}
                          ELSE {d \in acquirer_dates : d >= deal.announce[1]}
        target_exit == IF deal.completion = NaT THEN {}
                       ELSE {d \in target_dates : d <= deal.completion[1]}
        acquirer_exit == IF deal.completion = NaT THEN {}
                         ELSE {d \in acquirer_dates : d <= deal.completion[1]}
    IN IF target_dates = {} \/ acquirer_dates = {} THEN <<>>
       ELSE IF target_entry = {} \/ acquirer_entry = {} THEN <<>>
       ELSE LET entry_date == IF MinOf(target_entry) >= MinOf(acquirer_entry)
                              THEN MinOf(target_entry) ELSE MinOf(acquirer_entry)
            IN IF entry_date \notin target_dates \/ entry_date \notin acquirer_dates
               THEN <<>>
               ELSE IF target_exit = {} \/ acquirer_exit = {} THEN <<>>
               ELSE LET exit_date == ExitDate(target_exit, acquirer_exit)
                        target_entry_price == LegPriceOn(df, id, "target", entry_date)
                        acquirer_entry_price == LegPriceOn(df, id, "acquirer", entry_date)
                    IN IF target_entry_price <= 0 \/ acquirer_entry_price <= 0
                       THEN <<>>
                       ELSE LET shares_target ==
                                    capital_each_side \div target_entry_price
                                shares_acquirer ==
                                    capital_each_side \div acquirer_entry_price
                            IN IF shares_target = 0 \/ shares_acquirer = 0 THEN <<>>
                               ELSE <<OrderRow(entry_date, id, "target", shares_target),
                                      OrderRow(entry_date, id, "acquirer", -shares_acquirer),
                                      OrderRow(exit_date, id, "target", -shares_target),
                                      OrderRow(exit_date, id, "acquirer", shares_acquirer)>>

\* strategy_Shuhan.py: the keys whose second record is used
special_set == {<<845, "target">>, <<64, "target">>}

\* The name of the group a price row falls in: (date, deal_id, leg).
GroupName(row) == <<row.date, row.deal_id, row.price_type>>

\* The rows of one group, in frame order.
GroupRows(df, name) == SelectSeq(df, LAMBDA row : GroupName(row) = name)

RemoveAt(s, i) == [j \in 1..(Len(s) - 1) |-> IF j < i THEN s[j] ELSE s[j + 1]]

RECURSIVE SortByPrice(_)
\* The rows of one group after sort_values(by=[..., 'price']): ascending by
\* price, every row kept.
SortByPrice(rows) ==
    IF rows = <<>> THEN <<>>
    ELSE LET i == CHOOSE j \in 1..Len(rows) :
                      /\ \A h \in 1..Len(rows) : rows[j].price <= rows[h].price
                      /\ \A h \in 1..(j - 1) : rows[h].price # rows[j].price
         IN <<rows[i]>> \o SortByPrice(RemoveAt(rows, i))

\* a selection that takes the first record of every group
select_record_first(group, name) == group[1]

\* select_record: the second record of a group of the special set that has
\* one, the first record of every other group.
select_record(group, name) ==
    IF <<name[2], name[3]>> \in special_set
    THEN IF Len(group) >= 2 THEN group[2] ELSE group[1]
    ELSE group[1]

\* load_prices: one selected row per group.  The groupby(...).first() that
\* follows finds one row per group and keeps it.  The rows are listed in no
\* particular order.
load_prices(df) ==
    SetToSeq({select_record(SortByPrice(GroupRows(df, name)), name) :
                 name \in {GroupName(df[i]) : i \in 1..Len(df)}})

\* The orders list after the loop over the deals, in the order of the appends.
RECURSIVE EmittedOrders(_, _, _)
EmittedOrders(module, deals, df) ==
    IF deals = <<>> THEN <<>>
    ELSE (IF module = "strategy"
          THEN DealOrders(Head(deals), TradingCalendar(df))
          ELSE IF module = "strategy_imp_prob"
          THEN ImpliedProbDealOrders(Head(deals), TradingCalendar(df))
          ELSE LongShortDealOrders(Head(deals), df))
         \o EmittedOrders(module, Tail(deals), df)

\* The exception a generator raises, <<>> when it returns: the TypeError of
\* strategy_imp_prob.py's nested helper call; in strategy.py and
\* strategy_Shuhan.py the KeyError of orders_df["date"] on a frame built from
\* no orders.
GeneratorError(module, deals, df) ==
    IF module = "strategy_imp_prob"
    THEN IF \E i \in 1..Len(deals) : PreviousOfNoneRaises(deals[i], TradingCalendar(df))
         THEN <<"TypeError", "'<' not supported">>
         ELSE <<>>
    ELSE IF EmittedOrders(module, deals, df) = <<>>
         THEN <<"KeyError", "date">>
         ELSE <<>>

(***************************************************************************)
(* State.                                                                  *)
(***************************************************************************)
NoDuplicateIndex(e, S) ==
    \A x, y \in S : RowIndex(e, x) = RowIndex(e, y) => x = y

\* The caller's frames: at most maxRows of the given price rows and at most
\* maxOrders of the given order rows.
FramesOver(priceRows, orderRows, maxRows, maxOrders) ==
    /\ \E S \in SUBSET priceRows :
          /\ Cardinality(S) <= maxRows
          \* backtester.py documents one row per (date, deal_id)
          /\ engine = "backtester" => NoDuplicateIndex(engine, S)
          /\ price_df = SetToSeq(S)
    /\ orders \in UNION {[1..n -> orderRows] : n \in 0..maxOrders}
    /\ sort_perm \in SortOutcomes(orders)

\* The caller's frames over the given dates.
Frames(dates, maxRows, maxOrders) ==
    /\ engine \in Engines
    /\ FramesOver(PriceRowUniverse(engine, dates), OrderRowUniverse(engine, dates),
                  maxRows, maxOrders)

\* The orders come from the caller, not from an order generator.
NoGenerator == [module |-> "none", pc |-> "returned", error |-> <<>>]

NoGeneratorCall ==
    /\ deals_df = <<>>
    /\ prices_csv = <<>>
    /\ generator = NoGenerator

\* No call of backtest() has been made.
NotStarted ==
    /\ pc = [r \in Runs |-> "not_started"]
    /\ orders_df = [r \in Runs |-> <<>>]
    /\ all_dates = [r \in Runs |-> <<>>]
    /\ price_lookup = [r \in Runs |-> <<>>]
    /\ positions = [r \in Runs |-> EmptyLedger]
    /\ cash = [r \in Runs |-> 0]
    /\ portfolio_history = [r \in Runs |-> <<>>]
    /\ date_idx = [r \in Runs |-> 0]
    /\ order_idx = [r \in Runs |-> 0]
    /\ error = [r \in Runs |-> <<>>]
    /\ ledger_log = [r \in Runs |-> <<>>]
    /\ fill_log = [r \in Runs |-> <<>>]
    /\ first_outcome = [r \in Runs |-> <<>>]

\* The state before the call with the default capital.
InitWith(dates, maxRows, maxOrders) ==
    /\ Frames(dates, maxRows, maxOrders)
    /\ alt_perm = sort_perm
    /\ capital = initial_capital
    /\ NotStarted
    /\ day_call = NoCall
    /\ NoGeneratorCall

Init == InitWith(1..MaxDate, MaxPriceRows, MaxOrders)

\* The caller also holds a copy of `orders` with rows of equal date reordered;
\* run 2 is the call on that copy.
InitPermuted ==
    /\ Frames(1..MaxDate, MaxPriceRows, MaxOrders)
    /\ alt_perm \in SortOutcomes(orders)
    /\ capital = initial_capital
    /\ NotStarted
    /\ day_call = NoCall
    /\ NoGeneratorCall

\* Callers that start with little or no capital.
LowCapitals == {0, 15}

InitLowCapital ==
    /\ Frames(1..MaxDate, MaxPriceRows, MaxOrders)
    /\ alt_perm = sort_perm
    /\ capital \in LowCapitals
    /\ NotStarted
    /\ day_call = NoCall
    /\ NoGeneratorCall

\* The call of backtester.py's __main__: capital 100_000, lots of 100 shares,
\* one priced instrument over three dates.
ScenarioCapital == 100000
ScenarioLot == 100
ScenarioDates == 1..3
ScenarioPrices == {150, 160}

ScenarioPriceRows ==
    {[date |-> d, deal_id |-> 0, price_type |-> "target", price |-> p] :
        d \in ScenarioDates, p \in ScenarioPrices}

ScenarioOrderRows(e) ==
    {[date |-> d, deal_id |-> i[1], price_type |-> i[2], shares |-> s] :
        d \in ScenarioDates, i \in Instruments(e), s \in {ScenarioLot, -ScenarioLot}}

InitScenario ==
    /\ engine \in Engines
    /\ FramesOver(ScenarioPriceRows, ScenarioOrderRows(engine),
                  Cardinality(ScenarioDates), MaxOrders)
    /\ alt_perm = sort_perm
    /\ capital = ScenarioCapital
    /\ NotStarted
    /\ day_call = NoCall
    /\ NoGeneratorCall

\* Price frames as callers hand them over, rows of equal (date, key) and
\* repeated rows included, for each of the three engines.  The prices are
\* multiples of 60, so the mean of up to six rows is a whole number.
DuplicatePrices == {60, 120}

DuplicatePriceRows(e) ==
    {[date |-> d, deal_id |-> i[1], price_type |-> i[2], price |-> p] :
        d \in 1..MaxDate, i \in Instruments(e), p \in DuplicatePrices}

InitDuplicates ==
    /\ engine \in Engines \cup KeyedByDeal
    /\ price_df \in UNION {[1..n -> DuplicatePriceRows(engine)] : n \in 0..MaxPriceRows}
    /\ orders \in UNION {[1..n -> OrderRowUniverse(engine, 1..MaxDate)] :
                             n \in 0..(MaxOrders - 1)}
    /\ sort_perm \in SortOutcomes(orders)
    /\ alt_perm = sort_perm
    /\ capital = initial_capital
    /\ NotStarted
    /\ day_call = NoCall
    /\ NoGeneratorCall

\* The composite engine on the two legs of one deal, in lots of 1000 shares
\* at prices 50 and 80.
LegPrices == {50, 80}
LegShareCounts == {-1000, 1000}

LegPriceRows ==
    {[date |-> d, deal_id |-> i[1], price_type |-> i[2], price |-> p] :
        d \in 1..MaxDate, i \in Instruments("backtester_stock"), p \in LegPrices}

LegOrderRows ==
    {[date |-> d, deal_id |-> i[1], price_type |-> i[2], shares |-> s] :
        d \in 1..MaxDate, i \in Instruments("backtester_stock"), s \in LegShareCounts}

InitLegs ==
    /\ engine = "backtester_stock"
    /\ FramesOver(LegPriceRows, LegOrderRows, MaxPriceRows, MaxOrders)
    /\ alt_perm = sort_perm
    /\ capital = initial_capital
    /\ NotStarted
    /\ day_call = NoCall
    /\ NoGeneratorCall

\* Order rows whose deal_id cell is empty.
OrderRowsWithoutDealId(e, dates) ==
    {[date |-> d, price_type |-> i[2], shares |-> s] :
        d \in dates, i \in Instruments(e), s \in ShareCounts}

\* The state before a call whose orders may hold rows without a deal_id.
InitMalformed ==
    /\ engine \in Engines
    /\ FramesOver(PriceRowUniverse(engine, 1..MaxDate),
                  OrderRowUniverse(engine, 1..MaxDate)
                      \cup OrderRowsWithoutDealId(engine, 1..MaxDate),
                  MaxPriceRows - 1, MaxOrders)
    /\ alt_perm = sort_perm
    /\ capital = initial_capital
    /\ NotStarted
    /\ day_call = NoCall
    /\ NoGeneratorCall

\* The date cells of a deal: none, or a day from before the first price row
\* to after the last.
DealDateCells(dates) == {NaT} \cup {<<d>> : d \in dates}

ImpliedProbs == {0, 75, 100}

\* The deals a generator may be handed.  strategy_imp_prob.py and
\* strategy_Shuhan.py read no Amendment Date; only strategy_imp_prob.py reads
\* Implied Prob; strategy_Shuhan.py reads no Deal Type.
DealUniverse(module, dates) ==
    {[deal_id |-> id, deal_type |-> t, announce |-> a, amendment |-> m,
      completion |-> c, implied_prob |-> p] :
        id \in {0, 1},
        t \in IF module = "strategy_Shuhan" THEN {"M&A"} ELSE {"M&A", "Other"},
        a \in DealDateCells(dates),
        m \in IF module = "strategy" THEN DealDateCells({1}) ELSE {NaT},
        c \in DealDateCells(dates),
        p \in IF module = "strategy_imp_prob" THEN ImpliedProbs ELSE {100}}

\* The price rows in front of a generator: one deal's two legs for the
\* long-short strategy, two deals for the announce/completion strategies.
GeneratedPriceRows(e, dates) ==
    IF e = "backtester_stock"
    THEN {[date |-> d, deal_id |-> i[1], price_type |-> i[2], price |-> p] :
             d \in dates, i \in Instruments(e), p \in LegPrices}
    ELSE PriceRowUniverse(e, dates)

\* The state before a generator is called on the deals and the price rows,
\* its orders then to be replayed against the same price rows.
InitGenerated(modules, lastDate, maxRows) ==
    /\ generator \in {[module |-> g, pc |-> "not_called", error |-> <<>>] : g \in modules}
    /\ engine = EngineOf(generator.module)
    /\ \E S \in SUBSET GeneratedPriceRows(engine, 1..lastDate) :
          /\ Cardinality(S) <= maxRows
          /\ NoDuplicateIndex(engine, S)
          /\ price_df = SetToSeq(S)
    /\ deals_df \in UNION {[1..n -> DealUniverse(generator.module, 0..(lastDate + 1))] :
                               n \in 0..MaxDeals}
    /\ prices_csv = <<>>
    /\ orders = <<>>
    /\ sort_perm = <<>>
    /\ alt_perm = <<>>
    /\ capital = initial_capital
    /\ NotStarted
    /\ day_call = NoCall

CsvPrices == {50, 80, 90}

\* The rows of the price file: a key of the special set, the other leg of
\* its deal, and another deal.
CsvRows ==
    {[date |-> d, deal_id |-> i[1], price_type |-> i[2], price |-> p] :
        d \in 1..MaxDate,
        i \in {<<64, "target">>, <<64, "acquirer">>, <<7, "target">>},
        p \in CsvPrices}

\* The state before load_prices is called on a file of up to MaxPriceRows
\* rows, rows of one key and equal rows included.
InitLoadPrices ==
    /\ generator = [module |-> "strategy_Shuhan", pc |-> "not_loaded", error |-> <<>>]
    /\ engine = EngineOf(generator.module)
    /\ prices_csv \in UNION {[1..n -> CsvRows] : n \in 0..MaxPriceRows}
    /\ price_df = <<>>
    /\ deals_df = <<>>
    /\ orders = <<>>
    /\ sort_perm = <<>>
    /\ alt_perm = <<>>
    /\ capital = initial_capital
    /\ NotStarted
    /\ day_call = NoCall

\* strategy.py or strategy_imp_prob.py in front of backtester.py.
InitAnnounceCompletion ==
    InitGenerated({"strategy", "strategy_imp_prob"}, MaxDate, MaxPriceRows)

\* strategy_Shuhan.py in front of backtester_stock.py.
InitLongShort ==
    InitGenerated({"strategy_Shuhan"}, MaxDate + 1, MaxPriceRows + 1)

\* The state before backtester.py is called on frames of one price_type
\* without duplicate price rows.
InitSideBySide ==
    /\ Init
    /\ engine = "backtester"

\* A longer calendar with fewer orders.
InitLong == InitWith(1..(MaxDate + 1), MaxPriceRows, MaxOrders - 1)

current_date(r) == all_dates[r][date_idx[r]]
daily_orders(r) == DailyOrders(orders_df[r], current_date(r))
current_row(r) == daily_orders(r)[order_idx[r]]

\* The permutation behind the frame run r sorts.
PermOf(r) == IF r = 1 THEN sort_perm ELSE alt_perm


(***************************************************************************)
(* Actions of one run r.                                                   *)
(***************************************************************************)
Terminal(r) == pc[r] \in {"completed", "failed"}

\* a start that keeps the trace and the ledger of an earlier call
StartRunOnOldState(r) ==
    /\ pc[r] = "not_started"
    /\ TradingCalendar(price_df) # <<>>
    /\ orders_df' = [orders_df EXCEPT ![r] = SortValues(orders, PermOf(r))]
    /\ all_dates' = [all_dates EXCEPT ![r] = TradingCalendar(price_df)]
    /\ price_lookup' = [price_lookup EXCEPT ![r] = BuildPriceLookup(engine, price_df)]
    /\ cash' = [cash EXCEPT ![r] = capital]
    /\ date_idx' = [date_idx EXCEPT ![r] = 1]
    /\ order_idx' = [order_idx EXCEPT ![r] = 1]
    /\ error' = [error EXCEPT ![r] = <<>>]
    /\ pc' = [pc EXCEPT ![r] = "running"]
    /\ UNCHANGED <<inputs, day_call, deals_df, generator, positions, portfolio_history, ledger_log, fill_log,
                   first_outcome>>

\* a start that takes the default capital whatever the caller passed
StartRunDefaultCapital(r) ==
    /\ pc[r] = "not_started"
    /\ TradingCalendar(price_df) # <<>>
    /\ orders_df' = [orders_df EXCEPT ![r] = SortValues(orders, PermOf(r))]
    /\ all_dates' = [all_dates EXCEPT ![r] = TradingCalendar(price_df)]
    /\ price_lookup' = [price_lookup EXCEPT ![r] = BuildPriceLookup(engine, price_df)]
    /\ positions' = [positions EXCEPT ![r] = EmptyLedger]
    /\ cash' = [cash EXCEPT ![r] = initial_capital]
    /\ portfolio_history' = [portfolio_history EXCEPT ![r] = <<>>]
    /\ ledger_log' = [ledger_log EXCEPT ![r] = <<>>]
    /\ fill_log' = [fill_log EXCEPT ![r] = <<>>]
    /\ date_idx' = [date_idx EXCEPT ![r] = 1]
    /\ order_idx' = [order_idx EXCEPT ![r] = 1]
    /\ error' = [error EXCEPT ![r] = <<>>]
    /\ pc' = [pc EXCEPT ![r] = "running"]
    /\ UNCHANGED <<inputs, day_call, deals_df, generator, first_outcome>>

\* Lines up to the loop header, for price rows that give a calendar.
StartRun(r) ==
    /\ pc[r] = "not_started"
    /\ TradingCalendar(price_df) # <<>>
    /\ orders_df' = [orders_df EXCEPT ![r] = SortValues(orders, PermOf(r))]
    /\ all_dates' = [all_dates EXCEPT ![r] = TradingCalendar(price_df)]
    /\ price_lookup' = [price_lookup EXCEPT ![r] = BuildPriceLookup(engine, price_df)]
    /\ positions' = [positions EXCEPT ![r] = EmptyLedger]
    /\ cash' = [cash EXCEPT ![r] = capital]
    /\ portfolio_history' = [portfolio_history EXCEPT ![r] = <<>>]
    /\ ledger_log' = [ledger_log EXCEPT ![r] = <<>>]
    /\ fill_log' = [fill_log EXCEPT ![r] = <<>>]
    /\ date_idx' = [date_idx EXCEPT ![r] = 1]
    /\ order_idx' = [order_idx EXCEPT ![r] = 1]
    /\ error' = [error EXCEPT ![r] = <<>>]
    /\ pc' = [pc EXCEPT ![r] = "running"]
    /\ UNCHANGED <<inputs, day_call, deals_df, generator, first_outcome>>

\* No price rows: the loop body never runs and set_index('date') raises.
EmptyRun(r) ==
    /\ pc[r] = "not_started"
    /\ TradingCalendar(price_df) = <<>>
    /\ orders_df' = [orders_df EXCEPT ![r] = SortValues(orders, PermOf(r))]
    /\ all_dates' = [all_dates EXCEPT ![r] = <<>>]
    /\ price_lookup' = [price_lookup EXCEPT ![r] = BuildPriceLookup(engine, price_df)]
    /\ positions' = [positions EXCEPT ![r] = EmptyLedger]
    /\ cash' = [cash EXCEPT ![r] = capital]
    /\ portfolio_history' = [portfolio_history EXCEPT ![r] = <<>>]
    /\ ledger_log' = [ledger_log EXCEPT ![r] = <<>>]
    /\ fill_log' = [fill_log EXCEPT ![r] = <<>>]
    /\ error' = [error EXCEPT ![r] = NoDateColumn]
    /\ pc' = [pc EXCEPT ![r] = "failed"]
    /\ UNCHANGED <<inputs, day_call, deals_df, generator, date_idx, order_idx, first_outcome>>

\* a fill that skips a buy the cash does not cover
ExecuteOrderIfAffordable(r) ==
    /\ pc[r] = "running"
    /\ order_idx[r] <= Len(daily_orders(r))
    /\ LET row == current_row(r)
           k == LedgerKey(engine, row)
           ix == LookupKey(engine, current_date(r), k)
           cost == OrderCost(Loc(price_lookup[r], ix), row.shares)
       IN /\ InLookup(price_lookup[r], ix)
          /\ Convertible(engine, price_lookup[r], ix)
          /\ IF row.shares > 0 /\ cash[r] < cost
             THEN UNCHANGED <<positions, cash, fill_log>>
             ELSE /\ positions' = [positions EXCEPT ![r] =
                                     ApplyToPositions(positions[r], k, row.shares)]
                  /\ cash' = [cash EXCEPT ![r] = ApplyToCash(cash[r], cost)]
                  /\ fill_log' = [fill_log EXCEPT ![r] =
                        Append(fill_log[r],
                               [row |-> row.index, date |-> current_date(r)])]
    /\ order_idx' = [order_idx EXCEPT ![r] = order_idx[r] + 1]
    /\ UNCHANGED <<inputs, day_call, deals_df, generator, pc, orders_df, all_dates, price_lookup,
                   portfolio_history, date_idx, error, ledger_log, first_outcome>>

\* a fill that takes the filled row out of the order frame
ExecuteOrderConsuming(r) ==
    /\ pc[r] = "running"
    /\ order_idx[r] <= Len(daily_orders(r))
    /\ LET row == current_row(r)
           k == LedgerKey(engine, row)
           ix == LookupKey(engine, current_date(r), k)
       IN /\ InLookup(price_lookup[r], ix)
          /\ Convertible(engine, price_lookup[r], ix)
          /\ positions' = [positions EXCEPT ![r] =
                              ApplyToPositions(positions[r], k, row.shares)]
          /\ cash' = [cash EXCEPT ![r] =
                         ApplyToCash(cash[r], OrderCost(Loc(price_lookup[r], ix), row.shares))]
          /\ orders_df' = [orders_df EXCEPT ![r] =
                SelectSeq(orders_df[r], LAMBDA o : o.index # row.index)]
    /\ fill_log' = [fill_log EXCEPT ![r] =
          Append(fill_log[r], [row |-> current_row(r).index, date |-> current_date(r)])]
    /\ UNCHANGED <<inputs, day_call, deals_df, generator, pc, order_idx, all_dates, price_lookup,
                   portfolio_history, date_idx, error, ledger_log, first_outcome>>

\* a fill that keeps one cash scalar for all runs
ExecuteOrderSharedCash(r) ==
    /\ pc[r] = "running"
    /\ order_idx[r] <= Len(daily_orders(r))
    /\ LET row == current_row(r)
           k == LedgerKey(engine, row)
           ix == LookupKey(engine, current_date(r), k)
       IN /\ InLookup(price_lookup[r], ix)
          /\ Convertible(engine, price_lookup[r], ix)
          /\ positions' = [positions EXCEPT ![r] =
                              ApplyToPositions(positions[r], k, row.shares)]
          /\ cash' = [q \in Runs |->
                ApplyToCash(cash[r], OrderCost(Loc(price_lookup[r], ix), row.shares))]
    /\ fill_log' = [fill_log EXCEPT ![r] =
          Append(fill_log[r], [row |-> current_row(r).index, date |-> current_date(r)])]
    /\ order_idx' = [order_idx EXCEPT ![r] = order_idx[r] + 1]
    /\ UNCHANGED <<inputs, day_call, deals_df, generator, pc, orders_df, all_dates, price_lookup,
                   portfolio_history, date_idx, error, ledger_log, first_outcome>>

\* One row of daily_orders that has a price: fill it.
ExecuteOrder(r) ==
    /\ pc[r] = "running"
    /\ order_idx[r] <= Len(daily_orders(r))
    /\ HasDealId(current_row(r))
    /\ LET row == current_row(r)
           k == LedgerKey(engine, row)
           ix == LookupKey(engine, current_date(r), k)
       IN /\ InLookup(price_lookup[r], ix)
          /\ Convertible(engine, price_lookup[r], ix)
          /\ positions' = [positions EXCEPT ![r] =
                              ApplyToPositions(positions[r], k, row.shares)]
          /\ cash' = [cash EXCEPT ![r] =
                         ApplyToCash(cash[r], OrderCost(Loc(price_lookup[r], ix), row.shares))]
    /\ fill_log' = [fill_log EXCEPT ![r] =
          Append(fill_log[r], [row |-> current_row(r).index, date |-> current_date(r)])]
    /\ order_idx' = [order_idx EXCEPT ![r] = order_idx[r] + 1]
    /\ UNCHANGED <<inputs, day_call, deals_df, generator, pc, orders_df, all_dates, price_lookup,
                   portfolio_history, date_idx, error, ledger_log, first_outcome>>

\* an unpriced row that is skipped instead of raised on
SkipUnpricedOrder(r) ==
    /\ pc[r] = "running"
    /\ order_idx[r] <= Len(daily_orders(r))
    /\ ~InLookup(price_lookup[r],
                 LookupKey(engine, current_date(r), LedgerKey(engine, current_row(r))))
    /\ order_idx' = [order_idx EXCEPT ![r] = order_idx[r] + 1]
    /\ UNCHANGED <<inputs, day_call, deals_df, generator, pc, orders_df, all_dates, price_lookup, positions, cash,
                   portfolio_history, date_idx, error, ledger_log, fill_log,
                   first_outcome>>

\* One row of daily_orders that has no price: raise.
RaisePriceNotFound(r) ==
    /\ pc[r] = "running"
    /\ order_idx[r] <= Len(daily_orders(r))
    /\ HasDealId(current_row(r))
    /\ LET row == current_row(r)
           ix == LookupKey(engine, current_date(r), LedgerKey(engine, row))
       IN /\ ~InLookup(price_lookup[r], ix)
          /\ error' = [error EXCEPT ![r] = PriceNotFound(engine, current_date(r), row)]
    /\ pc' = [pc EXCEPT ![r] = "failed"]
    /\ UNCHANGED <<inputs, day_call, deals_df, generator, orders_df, all_dates, price_lookup, positions, cash,
                   portfolio_history, date_idx, order_idx, ledger_log, fill_log,
                   first_outcome>>

\* One row of daily_orders whose price_lookup.loc[key] does not convert to a
\* price: the conversion raises.
RaiseConversionError(r) ==
    /\ pc[r] = "running"
    /\ order_idx[r] <= Len(daily_orders(r))
    /\ LET row == current_row(r)
           ix == LookupKey(engine, current_date(r), LedgerKey(engine, row))
       IN /\ InLookup(price_lookup[r], ix)
          /\ ConversionRaises(engine, price_lookup[r], ix)
          /\ error' = [error EXCEPT ![r] = ConversionError(engine, current_date(r), row)]
    /\ pc' = [pc EXCEPT ![r] = "failed"]
    /\ UNCHANGED <<inputs, day_call, deals_df, generator, orders_df, all_dates, price_lookup, positions, cash,
                   portfolio_history, date_idx, order_idx, ledger_log, fill_log,
                   first_outcome>>

\* One row of daily_orders without a deal_id: raise.
RaiseMissingDealId(r) ==
    /\ pc[r] = "running"
    /\ order_idx[r] <= Len(daily_orders(r))
    /\ ~HasDealId(current_row(r))
    /\ error' = [error EXCEPT ![r] =
          MissingDealId(engine, current_date(r), current_row(r))]
    /\ pc' = [pc EXCEPT ![r] = "failed"]
    /\ UNCHANGED <<inputs, day_call, deals_df, generator, orders_df, all_dates, price_lookup, positions, cash,
                   portfolio_history, date_idx, order_idx, ledger_log, fill_log,
                   first_outcome>>

\* One call of load_prices; generate_orders is called on its result next.
LoadPrices ==
    /\ generator.pc = "not_loaded"
    /\ price_df' = load_prices(prices_csv)
    /\ generator' = [generator EXCEPT !.pc = "not_called"]
    /\ UNCHANGED <<engine, orders, sort_perm, alt_perm, capital, prices_csv, day_call,
                   deals_df, pc, orders_df, all_dates, price_lookup, positions, cash,
                   portfolio_history, date_idx, order_idx, error, ledger_log,
                   fill_log, first_outcome>>

\* One call of the generator.  The frame it returns is kept by index label,
\* the order of the appends; its rows are in one of the date orders, and
\* backtest() sorts them by date once more.
GenerateOrders ==
    /\ generator.pc = "not_called"
    /\ LET raised == GeneratorError(generator.module, deals_df, price_df)
           emitted == EmittedOrders(generator.module, deals_df, price_df)
       IN IF raised # <<>>
          THEN /\ generator' = [generator EXCEPT !.pc = "raised", !.error = raised]
               /\ UNCHANGED <<orders, sort_perm, alt_perm>>
          ELSE /\ generator' = [generator EXCEPT
                      !.pc = IF emitted = <<>> THEN "returned_empty" ELSE "returned"]
               /\ orders' = emitted
               /\ sort_perm' \in SortOutcomes(emitted)
               /\ alt_perm' = sort_perm'
    /\ UNCHANGED <<engine, price_df, capital, prices_csv, day_call, deals_df, pc, orders_df,
                   all_dates,
                   price_lookup, positions, cash, portfolio_history, date_idx,
                   order_idx, error, ledger_log, fill_log, first_outcome>>

\* All rows of the date are filled: value the portfolio, record it, and go
\* to the next date, or return the trace after the last one.
ValueDay(r) ==
    /\ pc[r] = "running"
    /\ order_idx[r] > Len(daily_orders(r))
    /\ portfolio_history' = [portfolio_history EXCEPT ![r] =
          Append(portfolio_history[r],
                 ValuationRecord(engine, price_lookup[r], positions[r], cash[r],
                                 current_date(r)))]
    /\ ledger_log' = [ledger_log EXCEPT ![r] =
          Append(ledger_log[r], [cash |-> cash[r], positions |-> positions[r]])]
    /\ IF date_idx[r] < Len(all_dates[r])
       THEN /\ date_idx' = [date_idx EXCEPT ![r] = date_idx[r] + 1]
            /\ order_idx' = [order_idx EXCEPT ![r] = 1]
            /\ pc' = pc
       ELSE /\ pc' = [pc EXCEPT ![r] = "completed"]
            /\ UNCHANGED <<date_idx, order_idx>>
    /\ UNCHANGED <<inputs, day_call, deals_df, generator, orders_df, all_dates, price_lookup, positions, cash,
                   error, fill_log, first_outcome>>

\* What a call of backtest() hands its caller: the trace, or the exception.
Outcome(r) ==
    [pc |-> pc[r], error |-> error[r], at |-> <<date_idx[r], order_idx[r]>>,
     trace |-> IF pc[r] = "completed" THEN portfolio_history[r] ELSE <<>>]

\* The caller calls backtest() again with the same three arguments.
Replay(r) ==
    /\ Terminal(r)
    /\ first_outcome[r] = <<>>
    /\ first_outcome' = [first_outcome EXCEPT ![r] = <<Outcome(r)>>]
    /\ pc' = [pc EXCEPT ![r] = "not_started"]
    /\ UNCHANGED <<inputs, day_call, deals_df, generator, orders_df, all_dates, price_lookup, positions, cash,
                   portfolio_history, date_idx, order_idx, error, ledger_log, fill_log>>

\* The caller hands the same three arguments to backtester_stock.py's
\* backtest().
RunOnOtherEngine(r) ==
    /\ Terminal(r)
    /\ first_outcome[r] = <<>>
    /\ engine = "backtester"
    /\ first_outcome' = [first_outcome EXCEPT ![r] = <<Outcome(r)>>]
    /\ engine' = "backtester_stock"
    /\ pc' = [pc EXCEPT ![r] = "not_started"]
    /\ UNCHANGED <<price_df, orders, sort_perm, alt_perm, capital, prices_csv, day_call,
                   deals_df, generator, orders_df, all_dates, price_lookup, positions, cash,
                   portfolio_history, date_idx, order_idx, error, ledger_log, fill_log>>

Step(r) ==
    \/ StartRun(r)
    \/ EmptyRun(r)
    \/ ExecuteOrder(r)
    \/ RaisePriceNotFound(r)
    \/ ValueDay(r)

\* One run of backtest().
Next == Step(1)

Spec == Init /\ [][Next]_vars

\* One run of backtest(), then the same call once more.
NextReplay == Step(1) \/ Replay(1)

SpecReplay == Init /\ [][NextReplay]_vars

\* One run of backtest() on `orders`, then one on the reordered copy.
NextPermuted == Step(1) \/ (Terminal(1) /\ Step(2))

SpecPermuted == InitPermuted /\ [][NextPermuted]_vars

\* One run of backtest() with little or no capital.
SpecLowCapital == InitLowCapital /\ [][Next]_vars

\* One call of get_next_trading_day.
CallNextTradingDay ==
    /\ day_call.fn = "none"
    /\ day_call' = [day_call EXCEPT
          !.fn = "get_next_trading_day",
          !.returned = get_next_trading_day(day_call.date, day_call.trading_dates)]
    /\ UNCHANGED <<backtest_vars, deals_df, generator>>

\* One call of get_previous_trading_day.
CallPreviousTradingDay ==
    /\ day_call.fn = "none"
    /\ day_call' = [day_call EXCEPT
          !.fn = "get_previous_trading_day",
          !.returned = get_previous_trading_day(day_call.date, day_call.trading_dates)]
    /\ UNCHANGED <<backtest_vars, deals_df, generator>>

\* The helpers called on a sorted calendar for a date; no backtest is run.
InitTradingDay ==
    /\ engine = "backtester"
    /\ price_df = <<>>
    /\ orders = <<>>
    /\ sort_perm = <<>>
    /\ alt_perm = <<>>
    /\ capital = initial_capital
    /\ NotStarted
    /\ \E ds \in SortedCalendars, x \in QueryDates :
          day_call = [NoCall EXCEPT !.date = x, !.trading_dates = ds]
    /\ NoGeneratorCall

NextTradingDay == CallNextTradingDay \/ CallPreviousTradingDay

SpecTradingDay == InitTradingDay /\ [][NextTradingDay]_vars

\* One run of backtest() on frames like those of backtester.py's __main__.
SpecScenario == InitScenario /\ [][Next]_vars

\* One run of backtest() on frames that may hold duplicate price rows.
NextDuplicates == Step(1) \/ RaiseConversionError(1)

SpecDuplicates == InitDuplicates /\ [][NextDuplicates]_vars

\* One run of backtester_stock.py's backtest() on the two legs of a deal.
SpecLegs == InitLegs /\ [][Next]_vars

\* One run of backtest() alone; then two calls on the same frames at once,
\* their steps interleaved in every way.
NextConcurrent ==
    \/ Step(1)
    \/ Replay(1)
    \/ (first_outcome[1] # <<>> /\ Step(2))

SpecConcurrent == Init /\ [][NextConcurrent]_vars

\* One run of backtest() on orders that may hold rows without a deal_id.
NextMalformed == Step(1) \/ RaiseMissingDealId(1)

SpecMalformed == InitMalformed /\ [][NextMalformed]_vars

\* A generator's call, then one run of backtest() on the orders it returned.
\* Returned orders are dated on calendar dates, so the calendar is not empty.
NextGenerated ==
    \/ GenerateOrders
    \/ (generator.pc = "returned" /\ StartRun(1))
    \/ (generator.pc = "returned" /\ ExecuteOrder(1))
    \/ (generator.pc = "returned" /\ RaisePriceNotFound(1))
    \/ (generator.pc = "returned" /\ ValueDay(1))

SpecAnnounceCompletion == InitAnnounceCompletion /\ [][NextGenerated]_vars

SpecLongShort == InitLongShort /\ [][NextGenerated]_vars

\* One run of backtester.py's backtest(), then one of backtester_stock.py's
\* on the same frames.
NextSideBySide == Step(1) \/ RunOnOtherEngine(1)

SpecSideBySide == InitSideBySide /\ [][NextSideBySide]_vars

\* One call of strategy_Shuhan.py's load_prices.
NextLoadPrices == LoadPrices

SpecLoadPrices == InitLoadPrices /\ [][NextLoadPrices]_vars

\* One run of backtest() over the longer calendar.
SpecLong == InitLong /\ [][Next]_vars

(***************************************************************************)
(* The inputs as the properties read them: the calendar and the price of a *)
(* (date, key), taken from the price rows themselves.                      *)
(***************************************************************************)
CalendarDates == {price_df[i].date : i \in 1..Len(price_df)}

PricesOf(d, k) ==
    LET hit == SelectSeq(price_df, LAMBDA row : row.date = d /\ LedgerKey(engine, row) = k)
    IN [i \in 1..Len(hit) |-> hit[i].price]

Priced(d, k) == PricesOf(d, k) # <<>>

\* the one price of (d, k): of its row, or the mean of its rows
OraclePrice(d, k) == SumSeq(PricesOf(d, k)) \div Len(PricesOf(d, k))

RECURSIVE SumFn(_)
\* the sum of the values of a function of finite domain
SumFn(f) ==
    IF DOMAIN f = {} THEN 0
    ELSE LET x == CHOOSE y \in DOMAIN f : TRUE
         IN f[x] + SumFn([y \in (DOMAIN f) \ {x} |-> f[y]])

\* the input orders (by row number) due by the end of date d: those dated
\* on a calendar date not after d
DueBy(d) ==
    {i \in 1..Len(orders) : orders[i].date \in CalendarDates /\ orders[i].date <= d}

KeysOf(I) == {LedgerKey(engine, orders[i]) : i \in I}

\* net shares of key k over the orders I
NetShares(k, I) ==
    SumFn([i \in {j \in I : LedgerKey(engine, orders[j]) = k} |-> orders[i].shares])

\* net cost of the orders I at the oracle's prices
NetCost(I) ==
    SumFn([i \in I |->
        orders[i].shares * OraclePrice(orders[i].date, LedgerKey(engine, orders[i]))])

\* the positions of the orders I, valued at the oracle's prices of date d
MarkToMarket(d, I) ==
    SumFn([k \in {kk \in KeysOf(I) : Priced(d, kk)} |->
              NetShares(k, I) * OraclePrice(d, k)])

\* C1: every step that fills an order takes the oracle's price of (current
\* date, key of the order), lowers cash by shares * price and raises the
\* ledger quantity of that key by shares; no other ledger entry changes.
C1_OrderFill ==
    [][\A r \in Runs :
         (pc[r] = "running" /\ order_idx'[r] = order_idx[r] + 1) =>
            LET row == current_row(r)
                k == LedgerKey(engine, row)
                d == current_date(r)
            IN /\ row.date = d
               /\ Priced(d, k)
               /\ cash'[r] = cash[r] - row.shares * OraclePrice(d, k)
               /\ DOMAIN positions'[r] = (DOMAIN positions[r]) \cup {k}
               /\ positions'[r][k] = Get(positions[r], k) + row.shares
               /\ \A kk \in (DOMAIN positions[r]) \ {k} :
                     positions'[r][kk] = positions[r][kk]]_vars

\* a sell was filled: the position went short and cash rose
C1_Witness ==
    /\ pc[1] = "running"
    /\ order_idx[1] = 2
    /\ daily_orders(1)[1].shares = -1
    /\ cash[1] > capital
    /\ positions[1][LedgerKey(engine, daily_orders(1)[1])] = -1

\* C2: every valuation record of date d is taken on the ledger that all
\* orders due by d have produced; its invested capital is the sum of
\* position * price over the ledger keys priced on d and its value is cash
\* plus invested capital.
C2_Valuation ==
    \A r \in Runs : \A n \in 1..Len(portfolio_history[r]) :
        LET rec == portfolio_history[r][n]
            led == ledger_log[r][n]
            I == DueBy(rec.date)
        IN /\ DOMAIN led.positions = KeysOf(I)
           /\ \A k \in KeysOf(I) : led.positions[k] = NetShares(k, I)
           /\ led.cash = capital - NetCost(I)
           /\ rec.invested_capital = MarkToMarket(rec.date, I)
           /\ rec.value = led.cash + rec.invested_capital

\* a record with an open position and a value that the price moved
C2_Witness ==
    \E n \in 1..Len(portfolio_history[1]) :
        /\ portfolio_history[1][n].invested_capital # 0
        /\ portfolio_history[1][n].value # capital

RecordDates(r) == {portfolio_history[r][n].date : n \in 1..Len(portfolio_history[r])}

\* C3: the trace holds one record per calendar date in strictly increasing
\* date order: while the loop runs, exactly the calendar dates before the
\* current date, and when the run completes, exactly the calendar dates.
C3_OneRecordPerDate ==
    \A r \in Runs :
        LET h == portfolio_history[r]
        IN /\ \A n \in 1..(Len(h) - 1) : h[n].date < h[n + 1].date
           /\ RecordDates(r) \subseteq CalendarDates
           /\ pc[r] = "running" =>
                 RecordDates(r) = {d \in CalendarDates : d < current_date(r)}
           /\ pc[r] = "completed" =>
                 /\ RecordDates(r) = CalendarDates
                 /\ Len(h) = Cardinality(CalendarDates)

\* a completed run over more than two dates that filled an order
C3_Witness ==
    /\ pc[1] = "completed"
    /\ Len(portfolio_history[1]) > 2
    /\ DOMAIN positions[1] # {}

\* the input orders (by row number) that run r filled before it stopped at
\* the row sort_values put in place j of the sorted frame
FilledBefore(j) == {sort_perm[jj] : jj \in 1..(j - 1)}

\* C4: a run fails with the price-not-found error exactly at the first
\* order, in execution order, on a calendar date that has no price for the
\* order's key: the error names that date and key, the ledger holds the
\* earlier orders only, the trace has no record of that date or a later one,
\* and the caller gets no trace.  A run that completes had no such order.
C4_MissingOrderPrice ==
    \A r \in Runs :
        /\ pc[r] = "completed" =>
              \A i \in 1..Len(orders) :
                  orders[i].date \in CalendarDates =>
                      Priced(orders[i].date, LedgerKey(engine, orders[i]))
        /\ (pc[r] = "failed" /\ error[r] # NoDateColumn) =>
              \E j \in 1..Len(orders) :
                  LET row == orders[sort_perm[j]]
                      k == LedgerKey(engine, row)
                      A == FilledBefore(j)
                  IN /\ row.date \in CalendarDates
                     /\ ~Priced(row.date, k)
                     /\ error[r][1] = "ValueError"
                     /\ error[r][3] = row.date
                     /\ error[r][4] = row.deal_id
                     /\ engine = "backtester_stock" => error[r][5] = row.price_type
                     /\ \A i \in A : orders[i].date \in CalendarDates =>
                           Priced(orders[i].date, LedgerKey(engine, orders[i]))
                     /\ LET done == {i \in A : orders[i].date \in CalendarDates}
                        IN /\ DOMAIN positions[r] = KeysOf(done)
                           /\ \A kk \in KeysOf(done) : positions[r][kk] = NetShares(kk, done)
                           /\ cash[r] = capital - NetCost(done)
                     /\ RecordDates(r) = {d \in CalendarDates : d < row.date}
                     /\ Outcome(r).trace = <<>>

\* a run failed on the second order of a date, the first one filled
C4_Witness ==
    /\ pc[1] = "failed"
    /\ error[1] # NoDateColumn
    /\ order_idx[1] = 2
    /\ DOMAIN positions[1] # {}

\* the held keys of run r that have no price and no order on the current date
GapKeys(r) ==
    {k \in DOMAIN positions[r] :
        /\ positions[r][k] # 0
        /\ ~Priced(current_date(r), k)
        /\ \A i \in 1..Len(orders) :
              orders[i].date = current_date(r) => LedgerKey(engine, orders[i]) # k}

\* C5: when a held position has no price and no order on the current date,
\* the step the run takes at the end of that date does not fail: it records
\* an invested capital to which that position adds nothing, leaves ledger
\* and cash as they are, and goes on to the next date (or completes on the
\* last one).
C5_GapTolerated ==
    [][\A r \in Runs :
         (/\ pc[r] = "running"
          /\ order_idx[r] > Len(daily_orders(r))
          /\ GapKeys(r) # {}
          /\ <<pc[r], portfolio_history[r], date_idx[r]>>' #
                <<pc[r], portfolio_history[r], date_idx[r]>>) =>
            LET d == current_date(r)
                pos == positions[r]
                rest == {k \in DOMAIN pos : k \notin GapKeys(r) /\ Priced(d, k)}
            IN /\ pc'[r] # "failed"
               /\ error'[r] = <<>>
               /\ positions'[r] = pos
               /\ cash'[r] = cash[r]
               /\ Len(portfolio_history'[r]) = Len(portfolio_history[r]) + 1
               /\ portfolio_history'[r][Len(portfolio_history'[r])].date = d
               /\ portfolio_history'[r][Len(portfolio_history'[r])].invested_capital =
                     SumFn([k \in rest |-> pos[k] * OraclePrice(d, k)])
               /\ IF \E d2 \in CalendarDates : d2 > d
                  THEN pc'[r] = "running" /\ current_date(r)' > d
                  ELSE pc'[r] = "completed"]_vars

\* a position went unpriced on a date that was not the last, and the run
\* went on to value a later date
C5_Witness ==
    \E n \in 1..(Len(portfolio_history[1]) - 1) :
        \E k \in DOMAIN ledger_log[1][n].positions :
            /\ ledger_log[1][n].positions[k] # 0
            /\ ~Priced(portfolio_history[1][n].date, k)
            /\ portfolio_history[1][n].invested_capital = 0
            /\ portfolio_history[1][n + 1].invested_capital # 0

\* C6: a run completes only if every order is dated on a calendar date on
\* which its key is priced.
C6_OffCalendarOrderFails ==
    \A r \in Runs :
        pc[r] = "completed" =>
            \A i \in 1..Len(orders) :
                /\ orders[i].date \in CalendarDates
                /\ Priced(orders[i].date, LedgerKey(engine, orders[i]))

\* the name under which a ledger key is reported in 'holdings'
HoldingName(k) == IF engine = "backtester" THEN k ELSE StrKey(k)

\* C7: the holdings of every record are the ledger entries of nonzero
\* quantity, short ones included, with their quantities.
C7_HoldingsAreNonzeroEntries ==
    \A r \in Runs : \A n \in 1..Len(portfolio_history[r]) :
        LET pos == ledger_log[r][n].positions
            held == portfolio_history[r][n].holdings
            nonzero == {k \in DOMAIN pos : pos[k] # 0}
        IN /\ DOMAIN held = {HoldingName(k) : k \in nonzero}
           /\ \A k \in nonzero : held[HoldingName(k)] = pos[k]

\* the input is a buy and a sell of as many shares of one key, the sell not
\* dated before the buy, both on calendar dates with the same price
MatchedPair(b, s) ==
    /\ Len(orders) = 2
    /\ {b, s} = {1, 2}
    /\ orders[b].shares > 0
    /\ orders[s].shares = -orders[b].shares
    /\ LedgerKey(engine, orders[s]) = LedgerKey(engine, orders[b])
    /\ orders[b].date <= orders[s].date
    /\ orders[b].date \in CalendarDates
    /\ orders[s].date \in CalendarDates
    /\ Priced(orders[b].date, LedgerKey(engine, orders[b]))
    /\ Priced(orders[s].date, LedgerKey(engine, orders[s]))
    /\ OraclePrice(orders[b].date, LedgerKey(engine, orders[b])) =
          OraclePrice(orders[s].date, LedgerKey(engine, orders[s]))

NoOrderDatedIn(d1, d2) ==
    \A i \in 1..Len(orders) : ~(d1 < orders[i].date /\ orders[i].date <= d2)

\* C9: between two recorded dates with no order dated after the first and up
\* to the second, cash and every ledger quantity stay as they were, and the
\* invested capital of the second date is the first date's ledger at the
\* second date's prices.
C9_NoOrdersNoLedgerChange ==
    \A r \in Runs : \A m, n \in 1..Len(portfolio_history[r]) :
        (/\ m < n
         /\ NoOrderDatedIn(portfolio_history[r][m].date, portfolio_history[r][n].date)) =>
            LET led == ledger_log[r][m]
                d2 == portfolio_history[r][n].date
            IN /\ ledger_log[r][n] = led
               /\ portfolio_history[r][n].invested_capital =
                     SumFn([k \in {kk \in DOMAIN led.positions : Priced(d2, kk)} |->
                               led.positions[k] * OraclePrice(d2, k)])

\* two recorded dates with no order in between, an open position, and an
\* invested capital that the price moved
C9_Witness ==
    \E m, n \in 1..Len(portfolio_history[1]) :
        /\ m < n
        /\ NoOrderDatedIn(portfolio_history[1][m].date, portfolio_history[1][n].date)
        /\ portfolio_history[1][m].invested_capital # 0
        /\ portfolio_history[1][n].invested_capital # 0
        /\ portfolio_history[1][n].invested_capital # portfolio_history[1][m].invested_capital

\* C10: a second call of backtest() on the same orders, prices and capital
\* ends as the first did: with the same exception at the same order, or
\* with a trace equal record by record.
C10_ReplayIsIdentical ==
    \A r \in Runs :
        (first_outcome[r] # <<>> /\ Terminal(r)) => Outcome(r) = first_outcome[r][1]

\* a replay has completed with a trace of a filled order
C10_Witness ==
    /\ first_outcome[1] # <<>>
    /\ pc[1] = "completed"
    /\ Len(portfolio_history[1]) > 1
    /\ portfolio_history[1][Len(portfolio_history[1])].holdings # <<>>

(***************************************************************************)
(* The fills of a run, as the properties read them.                        *)
(***************************************************************************)
\* the places in the fill log of run r where input row i was filled
FillsOf(r, i) == {n \in 1..Len(fill_log[r]) : fill_log[r][n].row = i}

\* the input rows run r has filled so far
Filled(r) == {fill_log[r][n].row : n \in 1..Len(fill_log[r])}

\* C11: in a run that completes, every order of the input has been filled
\* exactly once, on its own date, and the ledger and the cash are what those
\* fills make them, so nothing else has changed them.
C11_EveryOrderAppliedOnce ==
    \A r \in Runs :
        pc[r] = "completed" =>
            /\ \A i \in 1..Len(orders) :
                  /\ Cardinality(FillsOf(r, i)) = 1
                  /\ \A n \in FillsOf(r, i) : fill_log[r][n].date = orders[i].date
            /\ cash[r] = capital - NetCost(1..Len(orders))
            /\ DOMAIN positions[r] = KeysOf(1..Len(orders))
            /\ \A k \in DOMAIN positions[r] :
                  positions[r][k] = NetShares(k, 1..Len(orders))

\* C12: the orders of one date are filled in the order the caller's frame
\* lists them: of two fills on the same date, the earlier one is of the row
\* that comes first in the input.
C12_SameDateOrdersInInputOrder ==
    \A r \in Runs :
        \A a, b \in 1..Len(fill_log[r]) :
            (a < b /\ fill_log[r][a].date = fill_log[r][b].date) =>
                fill_log[r][a].row < fill_log[r][b].row

Passed(r) ==
    {orders_df[r][j].index : j \in
        {jj \in 1..Len(orders_df[r]) :
            /\ orders_df[r][jj].date \in Range(all_dates[r])
            /\ orders_df[r][jj].date < current_date(r)}}
    \cup {daily_orders(r)[n].index :
            n \in 1..(IF order_idx[r] - 1 <= Len(daily_orders(r))
                      THEN order_idx[r] - 1 ELSE Len(daily_orders(r)))}

\* C14: every order the loops have passed was filled, and filled in full,
\* whatever cash and position were at the time; a run stops early only for
\* an order without a price (or for a price frame without rows), never for
\* negative cash or a short position.
C14_PricedOrdersAlwaysFilled ==
    \A r \in Runs :
        /\ (pc[r] = "running" \/ pc[r] = "completed"
               \/ (pc[r] = "failed" /\ error[r] # NoDateColumn)) =>
              /\ Filled(r) = Passed(r)
              /\ Len(fill_log[r]) = Cardinality(Passed(r))
              /\ cash[r] = capital - NetCost(Filled(r))
              /\ DOMAIN positions[r] = KeysOf(Filled(r))
              /\ \A k \in DOMAIN positions[r] :
                    positions[r][k] = NetShares(k, Filled(r))
        /\ pc[r] = "failed" =>
              \/ error[r] = NoDateColumn /\ price_df = <<>>
              \/ /\ order_idx[r] <= Len(daily_orders(r))
                 /\ error[r] = PriceNotFound(engine, current_date(r), current_row(r))
                 /\ ~Priced(current_date(r), LedgerKey(engine, current_row(r)))

\* a completed run that bought without the cash for it and sold what it did
\* not hold
C14_Witness ==
    /\ pc[1] = "completed"
    /\ Len(fill_log[1]) = 2
    /\ cash[1] < 0
    /\ \E k \in DOMAIN positions[1] : positions[1][k] < 0
    /\ \E k \in DOMAIN positions[1] : positions[1][k] > 0

\* C15: the keys of the ledger are at every step exactly the keys of the
\* orders filled so far, and no step of a run takes a key out of the ledger,
\* whatever its quantity.
C15_LedgerKeysPersist ==
    [][\A r \in Runs :
          /\ DOMAIN positions[r] \subseteq DOMAIN positions'[r]
          /\ DOMAIN positions'[r] =
                {LedgerKey(engine, orders[fill_log'[r][n].row]) :
                    n \in 1..Len(fill_log'[r])}]_vars

\* a completed run whose ledger keeps a key at quantity zero
C15_Witness ==
    /\ pc[1] = "completed"
    /\ \E k \in DOMAIN positions[1] : positions[1][k] = 0

\* C17: the calendar a run builds is strictly increasing, so it holds no date
\* twice, and its dates are exactly the dates of the price rows.
C17_CalendarSortedDistinctDates ==
    \A r \in Runs :
        pc[r] # "not_started" =>
            /\ \A i, j \in 1..Len(all_dates[r]) :
                  i < j => all_dates[r][i] < all_dates[r][j]
            /\ Range(all_dates[r]) = CalendarDates

\* a calendar of two dates built from three price rows
C17_Witness ==
    /\ pc[1] = "completed"
    /\ Len(price_df) = 3
    /\ Len(all_dates[1]) = 2

\* the calendar dates after, and before, the date asked about
DaysAfter == {d \in Range(day_call.trading_dates) : d > day_call.date}
DaysBefore == {d \in Range(day_call.trading_dates) : d < day_call.date}

\* C18: get_next_trading_day on a sorted calendar returns the earliest
\* calendar date strictly after the date asked about, never that date itself,
\* and None when the calendar has no later date.
C18_NextTradingDay ==
    day_call.fn = "get_next_trading_day" =>
        IF DaysAfter = {}
        THEN day_call.returned = None
        ELSE /\ day_call.returned = <<CHOOSE d \in DaysAfter : \A e \in DaysAfter : d <= e>>
             /\ day_call.returned # <<day_call.date>>

\* asked about a calendar date that is followed by a gap and two more dates
C18_Witness ==
    /\ day_call.fn = "get_next_trading_day"
    /\ day_call.trading_dates = <<1, 3, 4>>
    /\ day_call.date = 1
    /\ day_call.returned = <<3>>

RECURSIVE BisectLeft(_, _, _, _)
\* binary search: the number of elements of the sorted a[lo+1..hi] and before
\* that are below x
BisectLeft(a, x, lo, hi) ==
    IF lo >= hi THEN lo
    ELSE LET mid == (lo + hi) \div 2
         IN IF a[mid + 1] < x THEN BisectLeft(a, x, mid + 1, hi)
            ELSE BisectLeft(a, x, lo, mid)

\* the greatest element below x by binary search, None when there is none
BinarySearchPrevious(x, a) ==
    LET i == BisectLeft(a, x, 0, Len(a))
    IN IF i = 0 THEN None ELSE <<a[i]>>

\* C19: get_previous_trading_day on a sorted calendar returns the latest
\* calendar date strictly before the date asked about, which is what a binary
\* search for the greatest element below it finds, and None when the calendar
\* has no earlier date.
C19_PreviousTradingDay ==
    day_call.fn = "get_previous_trading_day" =>
        /\ IF DaysBefore = {}
           THEN day_call.returned = None
           ELSE day_call.returned =
                   <<CHOOSE d \in DaysBefore : \A e \in DaysBefore : d >= e>>
        /\ day_call.returned =
              BinarySearchPrevious(day_call.date, day_call.trading_dates)

\* asked about a calendar date that follows a gap and two earlier dates
C19_Witness ==
    /\ day_call.fn = "get_previous_trading_day"
    /\ day_call.trading_dates = <<1, 2, 4>>
    /\ day_call.date = 4
    /\ day_call.returned = <<2>>

\* the worked example: one instrument priced 150, 160, 160 on days 1, 2, 3;
\* buy 100 on day 1, sell 100 on day 3; capital 100,000
ExampleKey == LedgerKey(engine, [deal_id |-> 0, price_type |-> "target"])

ExampleInput ==
    /\ capital = 100000
    /\ Range(price_df) =
          {[date |-> 1, deal_id |-> 0, price_type |-> "target", price |-> 150],
           [date |-> 2, deal_id |-> 0, price_type |-> "target", price |-> 160],
           [date |-> 3, deal_id |-> 0, price_type |-> "target", price |-> 160]}
    /\ Len(orders) = 2
    /\ Range(orders) =
          {[date |-> 1, deal_id |-> 0, price_type |-> "target", shares |-> 100],
           [date |-> 3, deal_id |-> 0, price_type |-> "target", shares |-> -100]}

\* C20: on the worked example the run does not fail, its records carry the
\* values 100,000, 101,000 and 101,000 in this order, and after the sell the
\* cash is 101,000 and the position is 0.
C20_WorkedExample ==
    \A r \in Runs :
        ExampleInput =>
            /\ pc[r] # "failed"
            /\ \A n \in 1..Len(portfolio_history[r]) :
                  /\ portfolio_history[r][n].date = n
                  /\ portfolio_history[r][n].value = <<100000, 101000, 101000>>[n]
            /\ pc[r] = "completed" =>
                  /\ Len(portfolio_history[r]) = 3
                  /\ cash[r] = 101000
                  /\ positions[r][ExampleKey] = 0
                  /\ ledger_log[r][3] = [cash |-> 101000,
                                         positions |-> [k \in {ExampleKey} |-> 0]]

\* the worked example has run to its end
C20_Witness ==
    /\ ExampleInput
    /\ pc[1] = "completed"
    /\ Len(fill_log[1]) = 2

\* some (date, key) has price rows of different prices in the caller's frame
HasDuplicates ==
    \E i, j \in 1..Len(price_df) :
        /\ RowIndex(engine, price_df[i]) = RowIndex(engine, price_df[j])
        /\ price_df[i].price # price_df[j].price

\* the engine replaces the rows of one (date, key) by one price, by a rule
\* that does not depend on their order, before it builds the oracle
ResolvesDuplicates == engine = "backtester_stock"

\* C16: a frame with several price rows for one (date, key) is either
\* refused when the oracle is built or reduced to one price per (date, key)
\* by a fixed rule before that; so no run gets under way on unresolved
\* duplicates, no order is filled at one of several prices, and no position
\* is valued from several prices.
C16_DuplicatesResolvedOrRefused ==
    \A r \in Runs :
        (HasDuplicates /\ ~ResolvesDuplicates) =>
            /\ pc[r] \notin {"running", "completed"}
            /\ \A n \in 1..Len(fill_log[r]) :
                  Len(PricesOf(fill_log[r][n].date,
                               LedgerKey(engine, orders[fill_log[r][n].row]))) = 1
            /\ \A n \in 1..Len(portfolio_history[r]) :
                  \A k \in DOMAIN ledger_log[r][n].positions :
                      Len(PricesOf(portfolio_history[r][n].date, k)) <= 1

\* the two legs of deal 0
TargetLeg == <<0, "target">>
AcquirerLeg == <<0, "acquirer">>

\* the prices the rows of date d give for a leg of deal 0
LegQuotes(d, leg) ==
    {price_df[i].price : i \in {j \in 1..Len(price_df) :
        /\ price_df[j].date = d
        /\ price_df[j].deal_id = 0
        /\ price_df[j].price_type = leg}}

\* the orders are a buy of 1000 of the target leg and a sell of 1000 of the
\* acquirer leg, both on date d, where every price row of the target leg
\* says 50 and every price row of the acquirer leg says 80
LongShortOn(d) ==
    /\ engine = "backtester_stock"
    /\ Len(orders) = 2
    /\ Range(orders) =
          {[date |-> d, deal_id |-> 0, price_type |-> "target", shares |-> 1000],
           [date |-> d, deal_id |-> 0, price_type |-> "acquirer", shares |-> -1000]}
    /\ LegQuotes(d, "target") = {50}
    /\ LegQuotes(d, "acquirer") = {80}

\* C21: with composite keys, the buy of 1000 target at 50 and the short sale
\* of 1000 acquirer at 80 on one date give, in that date's record, invested
\* capital -30,000 from cash = capital + 30,000, total value = capital, and
\* ledger entries of +1000 and -1000 under the two keys.
C21_LongShortLegs ==
    \A r \in Runs : \A n \in 1..Len(portfolio_history[r]) :
        LongShortOn(portfolio_history[r][n].date) =>
            /\ portfolio_history[r][n].invested_capital = -30000
            /\ ledger_log[r][n].cash = capital + 30000
            /\ portfolio_history[r][n].value = capital
            /\ DOMAIN ledger_log[r][n].positions = {TargetLeg, AcquirerLeg}
            /\ ledger_log[r][n].positions[TargetLeg] = 1000
            /\ ledger_log[r][n].positions[AcquirerLeg] = -1000
            /\ portfolio_history[r][n].holdings =
                  [s \in {StrKey(TargetLeg), StrKey(AcquirerLeg)} |->
                      IF s = StrKey(TargetLeg) THEN 1000 ELSE -1000]

\* the record of a date with exactly this pair of orders has been written
C21_Witness ==
    \E n \in 1..Len(portfolio_history[1]) :
        /\ LongShortOn(portfolio_history[1][n].date)
        /\ Len(fill_log[1]) = 2

\* C23: no step of the loop of a run changes the price oracle, the calendar
\* or the order frame: from the state in which the loop starts to the state
\* in which it ends or fails, every (date, key) has the same price and every
\* date the same orders in the same sequence.
C23_OracleAndOrderBookReadOnly ==
    [][\A r \in Runs :
          pc[r] = "running" =>
             /\ DOMAIN price_lookup'[r] = DOMAIN price_lookup[r]
             /\ \A ix \in DOMAIN price_lookup[r] :
                   price_lookup'[r][ix] = price_lookup[r][ix]
             /\ all_dates'[r] = all_dates[r]
             /\ Len(orders_df'[r]) = Len(orders_df[r])
             /\ \A d \in Range(all_dates[r]) :
                   DailyOrders(orders_df'[r], d) = DailyOrders(orders_df[r], d)]_vars

\* a run that filled two orders and wrote two records on a non-empty oracle
C23_Witness ==
    /\ pc[1] = "completed"
    /\ Len(fill_log[1]) = 2
    /\ Len(portfolio_history[1]) = 2
    /\ DOMAIN price_lookup[1] # {}

\* the input prices of the rows that carry index tuple ix, read off the rows
InputPricesAt(ix) ==
    LET hit == SelectSeq(price_df, LAMBDA row :
                   <<row.date, row.deal_id, row.price_type>> = ix)
    IN [i \in 1..Len(hit) |-> hit[i].price]

\* the oracle of run r holds, for exactly the (date, deal_id, price_type) of
\* the input rows, one price: the arithmetic mean of the input prices
OracleIsMeanOfInput(r) ==
    /\ DOMAIN price_lookup[r] =
          {<<price_df[i].date, price_df[i].deal_id, price_df[i].price_type>> :
              i \in 1..Len(price_df)}
    /\ \A ix \in DOMAIN price_lookup[r] :
          /\ Len(price_lookup[r][ix]) = 1
          /\ Len(InputPricesAt(ix)) * price_lookup[r][ix][1] = SumSeq(InputPricesAt(ix))

\* C27: in the composite engine the oracle, once built, holds one price per
\* (date, deal_id, price_type) of the input, the arithmetic mean of that
\* key's input prices; every fill moves cash by shares times that price and
\* every record values each priced position at that price.
C27_DuplicatesAveraged ==
    [][\A r \in Runs :
          engine = "backtester_stock" =>
             /\ pc'[r] # "not_started" => OracleIsMeanOfInput(r)'
             /\ (pc[r] = "running" /\ order_idx'[r] = order_idx[r] + 1) =>
                   LET row == current_row(r)
                       ix == <<current_date(r), row.deal_id, row.price_type>>
                   IN cash[r] - cash'[r] = row.shares * price_lookup[r][ix][1]
             /\ Len(portfolio_history'[r]) = Len(portfolio_history[r]) + 1 =>
                   LET rec == portfolio_history'[r][Len(portfolio_history'[r])]
                       held == {k \in DOMAIN positions[r] :
                                   <<rec.date, k[1], k[2]>> \in DOMAIN price_lookup[r]}
                   IN rec.invested_capital =
                         SumFn([k \in held |->
                                   positions[r][k] *
                                   price_lookup[r][<<rec.date, k[1], k[2]>>][1]])]_vars

\* three rows of one key, 60, 60 and 120 in some order: an order was filled
\* at their mean 80 and the position valued at 80
C27_Witness ==
    /\ engine = "backtester_stock"
    /\ pc[1] = "completed"
    /\ Len(price_df) = 3
    /\ Cardinality(DOMAIN price_lookup[1]) = 1
    /\ Len(fill_log[1]) = 1
    /\ orders[1].shares = 1
    /\ cash[1] = capital - 80
    /\ portfolio_history[1][1].invested_capital = 80

\* the order filled at place n of the fill log of run r, its key, and the
\* price of its key on the date of the fill
FilledRow(r, n) == orders[fill_log[r][n].row]
FilledKey(r, n) == LedgerKey(engine, FilledRow(r, n))
FillPrice(r, n) == OraclePrice(fill_log[r][n].date, FilledKey(r, n))

\* C28: at every point of a run, cash is the capital less the sum over the
\* fills so far of quantity times fill price, the ledger quantity of a key is
\* the sum of the quantities filled on it, and a key without a fill is not
\* in the ledger.
C28_LedgerAndCashClosedForm ==
    \A r \in Runs :
        pc[r] # "not_started" =>
            LET fills == 1..Len(fill_log[r])
            IN /\ cash[r] = capital -
                     SumFn([n \in fills |-> FilledRow(r, n).shares * FillPrice(r, n)])
               /\ DOMAIN positions[r] = {FilledKey(r, n) : n \in fills}
               /\ \A k \in DOMAIN positions[r] :
                     positions[r][k] =
                        SumFn([n \in {m \in fills : FilledKey(r, m) = k} |->
                                  FilledRow(r, n).shares])

\* one date is done and the next is under way, after a buy on one key and a
\* sell on another
C28_Witness ==
    /\ pc[1] = "running"
    /\ Len(portfolio_history[1]) = 1
    /\ Len(fill_log[1]) = 2
    /\ Cardinality(DOMAIN positions[1]) = 2
    /\ \E k \in DOMAIN positions[1] : positions[1][k] > 0
    /\ \E k \in DOMAIN positions[1] : positions[1][k] < 0

\* cash and ledger of run r before the orders of its n-th calendar date
CashBefore(r, n) == IF n = 1 THEN capital ELSE ledger_log[r][n - 1].cash
PositionsBefore(r, n) == IF n = 1 THEN EmptyLedger ELSE ledger_log[r][n - 1].positions

RunState(r) ==
    <<pc[r], date_idx[r], order_idx[r], positions[r], cash[r],
      portfolio_history[r], error[r]>>

\* C24: two runs on the same frames, each with its own ledger, cash and
\* trace, interleaved in any way: a step of one run leaves the other run's
\* state as it was, and each run ends as the run made alone beforehand ended,
\* with the same trace or the same exception at the same row.
C24_ConcurrentRunsIndependent ==
    [][/\ \A r, q \in Runs :
             (r # q /\ RunState(r)' # RunState(r)) => RunState(q)' = RunState(q)
       /\ \A r \in Runs :
             (first_outcome'[1] # <<>> /\ Terminal(r)') =>
                Outcome(r)' = first_outcome'[1][1]]_vars

\* the two concurrent runs are both under way: run 1 has filled an order of
\* the first date, run 2 has passed it, written the first record and filled
\* an order of the second date
C24_Witness ==
    /\ first_outcome[1] # <<>>
    /\ pc[1] = "running"
    /\ pc[2] = "running"
    /\ Len(fill_log[1]) = 1
    /\ Len(portfolio_history[1]) = 0
    /\ Len(portfolio_history[2]) = 1
    /\ Len(fill_log[2]) = 2
    /\ cash[1] # cash[2]

\* an order row of the caller's frame that has no deal_id and is dated on a
\* date of the calendar
MalformedOrderDue ==
    \E i \in 1..Len(orders) :
        ~HasDealId(orders[i]) /\ orders[i].date \in CalendarDates

\* C22: a run whose orders hold a row without its instrument key ends in a
\* failure raised before the simulation started: the run that has ended has
\* failed, with no order applied and no valuation record produced.
C22_MalformedFailsBeforeStart ==
    \A r \in Runs :
        (MalformedOrderDue /\ Terminal(r)) =>
            /\ pc[r] = "failed"
            /\ fill_log[r] = <<>>
            /\ portfolio_history[r] = <<>>

\* the signed share quantities of the emitted orders of deal id
EmittedShares(id) ==
    LET own == SelectSeq(orders, LAMBDA row : row.deal_id = id)
    IN [i \in 1..Len(own) |-> own[i].shares]

\* C25: for every deal for which strategy.py's generate_orders_from_deals
\* emits a buy and a sell, the signed quantities of the deal's orders sum to
\* zero, and the deal's ledger position is 0 once the run that replays them
\* has completed.
C25_SellsEverythingBought ==
    (generator.module = "strategy" /\ generator.pc = "returned") =>
        \A id \in {orders[i].deal_id : i \in 1..Len(orders)} :
            Len(EmittedShares(id)) = 2 =>
                /\ SumSeq(EmittedShares(id)) = 0
                /\ pc[1] = "completed" => Get(positions[1], id) = 0

\* C30: a run of backtester.py on the orders that strategy.py or
\* strategy_imp_prob.py generated from the same price rows never raises the
\* missing-price error: every order is dated on a calendar date on which
\* its own deal_id has a price.
C30_GeneratedOrdersArePriced ==
    generator.module \in {"strategy", "strategy_imp_prob"} =>
        \A r \in Runs : error[r] = <<>> \/ error[r][2] # "Price not found"

\* C26: every order strategy_Shuhan.py's generate_orders emits, entry and
\* exit, target and acquirer, has a price row for its (date, deal_id, leg),
\* and the run of backtester_stock.py that replays them raises no
\* missing-price error.
C26_EntryAndExitPricedForBothLegs ==
    (generator.module = "strategy_Shuhan" /\ generator.pc = "returned") =>
        /\ \A i \in 1..Len(orders) :
              Priced(orders[i].date, LedgerKey(engine, orders[i]))
        /\ pc[1] # "failed"

\* the emitted orders of deal id, in the order of the appends
EmittedFor(id) == SelectSeq(orders, LAMBDA row : row.deal_id = id)

\* C31: for every deal for which a generator emits an opening order and
\* then a closing order, the opening order is not dated later than the
\* closing order: no deal is sold before it is bought.
C31_OpenedNotAfterClosed ==
    generator.pc = "returned" =>
        \A id \in {orders[i].deal_id : i \in 1..Len(orders)} :
            LET own == EmittedFor(id)
            IN (Len(own) = 2 /\ own[1].shares > 0 /\ own[2].shares < 0) =>
                   own[1].date <= own[2].date

\* the trading days strictly before the completion date of a deal
DaysBeforeCompletion(deal) == {d \in CalendarDates : d < deal.completion[1]}

\* the sell orders emitted for deal id
SellDates(id) ==
    {orders[i].date : i \in {j \in 1..Len(orders) :
                                orders[j].deal_id = id /\ orders[j].shares < 0}}

\* C32: in strategy_imp_prob.py a deal with a completion date gets a sell
\* order exactly when at least two trading days lie strictly before the
\* completion date, dated the second-latest of them; with fewer than two the
\* call raises nothing and emits no sell order.
C32_SellTwoTradingDaysBefore ==
    (generator.module = "strategy_imp_prob" /\ generator.pc # "not_called") =>
        \A i \in 1..Len(deals_df) :
            LET deal == deals_df[i]
                before == DaysBeforeCompletion(deal)
            IN (/\ deal.deal_type = "M&A"
                /\ adjusted_shares(deal) # 0
                /\ deal.completion # NaT) =>
                   /\ generator.pc # "raised"
                   /\ IF Cardinality(before) >= 2
                      THEN SellDates(deal.deal_id) = {MaxOf(before \ {MaxOf(before)})}
                      ELSE SellDates(deal.deal_id) = {}

\* C33: the record of every calendar date before the first date with a
\* filled order (every date, in a run that fills none) has value = the
\* initial capital passed to the run, invested capital 0 and no holdings.
C33_UntouchedBeforeFirstFill ==
    \A r \in Runs : \A n \in 1..Len(portfolio_history[r]) :
        LET rec == portfolio_history[r][n]
        IN (\A j \in 1..Len(fill_log[r]) : fill_log[r][j].date > rec.date) =>
               /\ rec.value = capital
               /\ rec.invested_capital = 0
               /\ DOMAIN rec.holdings = {}

\* a date valued before the first fill of the run, which comes on a later
\* date, with a capital other than the default
C33_Witness ==
    /\ capital # initial_capital
    /\ capital > 0
    /\ Len(portfolio_history[1]) = 2
    /\ Len(fill_log[1]) >= 1
    /\ fill_log[1][1].date > portfolio_history[1][1].date
    /\ portfolio_history[1][1].value = capital
    /\ portfolio_history[1][2].invested_capital # 0

\* the total value and the invested capital of each date of a trace
ValueTrace(trace) ==
    [n \in 1..Len(trace) |->
        <<trace[n].date, trace[n].value, trace[n].invested_capital>>]

C35_TwoTerminalStates ==
    \A r \in Runs :
        Terminal(r) =>
            \/ /\ pc[r] = "completed"
               /\ Len(portfolio_history[r]) = Cardinality(CalendarDates)
            \/ /\ pc[r] = "failed"
               /\ error[r][2] = "Price not found"

\* the input rows of a key, and how many of them carry price p
CsvPricesOf(name) ==
    {prices_csv[i].price : i \in {j \in 1..Len(prices_csv) : GroupName(prices_csv[j]) = name}}

CsvCount(name, p) ==
    Cardinality({j \in 1..Len(prices_csv) :
                    GroupName(prices_csv[j]) = name /\ prices_csv[j].price = p})

\* the price of the second of the key's input rows in ascending price order
SecondLowest(name) ==
    LET lowest == MinOf(CsvPricesOf(name))
    IN IF CsvCount(name, lowest) >= 2 THEN lowest
       ELSE MinOf(CsvPricesOf(name) \ {lowest})

\* C36: after load_prices the table has exactly one row for every
\* (date, deal_id, leg) of the input and none for any other; the row of a
\* key of the special set with two or more input rows carries the
\* second-lowest of their prices, and the row of every other key the lowest.
C36_LoadPricesSelectsRecord ==
    (generator.module = "strategy_Shuhan" /\ generator.pc = "not_called") =>
        /\ \A i, j \in 1..Len(price_df) :
              GroupName(price_df[i]) = GroupName(price_df[j]) => i = j
        /\ {GroupName(price_df[i]) : i \in 1..Len(price_df)} =
              {GroupName(prices_csv[i]) : i \in 1..Len(prices_csv)}
        /\ \A i \in 1..Len(price_df) :
              LET name == GroupName(price_df[i])
                  n == Cardinality({j \in 1..Len(prices_csv) :
                                       GroupName(prices_csv[j]) = name})
              IN price_df[i].price =
                    IF <<name[2], name[3]>> \in special_set /\ n >= 2
                    THEN SecondLowest(name)
                    ELSE MinOf(CsvPricesOf(name))

\* three rows of one special key at three prices, the highest first: the
\* middle price is kept
C36_Witness ==
    /\ generator.pc = "not_called"
    /\ Len(prices_csv) = 3
    /\ \A i \in 1..3 : GroupName(prices_csv[i]) = <<1, 64, "target">>
    /\ prices_csv[1].price = 90
    /\ prices_csv[2].price = 50
    /\ prices_csv[3].price = 80
    /\ Len(price_df) = 1
    /\ price_df[1].price = 80

====
